---- MODULE Spec2Model ----
(***************************************************************************)
(* Synthetic data generation engine (sdg_engine / blender_sdg).            *)
(*                                                                         *)
(* Two specifications share this module:                                   *)
(*   Spec     the dataset sweep of generate_dataset_from_config            *)
(*            (render.py), one action per program step;                    *)
(*   SpecBox  the projection math of utils.py applied to bounded inputs    *)
(*            (calculate_normalized_coordinates, compute_bounding_box).    *)
(* Floating point numbers are modelled as exact rationals <<num, den>>.    *)
(***************************************************************************)
EXTENDS Integers, Sequences, FiniteSets, TLC

VARIABLES
    \* ---- inputs of one run of generate_dataset_from_config
    debug,              \* config.debug
    folder,             \* kind of config.scene_config.background_images_folder_path
    listing,            \* directory listing of that folder (file ids, listing order)
    snapshots,          \* sweep.snapshots
    \* ---- program state of generate_dataset_from_config
    pc,                 \* program point
    all_background_images,
    snapshot_idx,       \* enumerate index of the outer loop (0-based)
    bg_idx,             \* enumerate index of the inner loop (0-based)
    scene,              \* the Blender scene (pose, world, render settings)
    disk,               \* pixel files written by the render call, in order
    annotation,         \* the Annotation under construction / last built
    current_render_resolution,  \* annotate_snapshot's local of that name
    elem_i,             \* enumerate index of annotate_snapshot's loop (0-based)
    dataset,            \* dataset.annotations
    metadata,           \* the metadata.jsonl file
    failure,            \* the exception that aborted the run, or "none"
    trace,              \* history of the calls made on the scene and renderer
    \* ---- projection math applied to one input (SpecBox)
    stage,
    in_mesh,            \* vertices in camera space
    in_frame,           \* the 3 (negated) frustum corners
    in_relative,
    in_resolution,
    out_norm,           \* <<lx, ly>>
    out_box,
    out_variant         \* which package's compute_bounding_box produced out_box

sweepVars == <<debug, folder, listing, snapshots, pc, all_background_images,
               snapshot_idx, bg_idx, scene, disk, annotation,
               current_render_resolution, elem_i, dataset, metadata, failure,
               trace>>
boxVars == <<stage, in_mesh, in_frame, in_relative, in_resolution, out_norm,
             out_box, out_variant>>
vars == <<sweepVars, boxVars>>

----------------------------------------------------------------------------
(* Bounds of the model *)

MaxSnap == 2        \* longest sweep
NumIds == 2         \* distinct snapshot ids a sweep draws from
NumFiles == 4       \* files that may lie in the background folder
MaxListing == 2     \* longest directory listing
NumElements == 3    \* elements of the scene
MaxVerts == 3       \* longest mesh given to the projection math

----------------------------------------------------------------------------
(* Exact rational arithmetic standing for Python floats *)

Abs(n) == IF n < 0 THEN -n ELSE n

RECURSIVE GCD(_, _)
GCD(a, b) == IF b = 0 THEN a ELSE GCD(b, a % b)

Norm(n, d) ==
    LET s == IF d < 0 THEN -1 ELSE 1
        g == GCD(Abs(n), Abs(d))
    IN  IF n = 0 THEN <<0, 1>> ELSE <<(s * n) \div g, (s * d) \div g>>

R(n) == <<n, 1>>
\* operands are brought to the least common denominator, which keeps the
\* intermediate products small
RAdd(a, b) ==
    LET g == GCD(a[2], b[2])
    IN  Norm(a[1] * (b[2] \div g) + b[1] * (a[2] \div g), (a[2] \div g) * b[2])
RNeg(a) == <<-a[1], a[2]>>
RSub(a, b) == RAdd(a, RNeg(b))
RMul(a, b) == Norm(a[1] * b[1], a[2] * b[2])
RDiv(a, b) == Norm(a[1] * b[2], a[2] * b[1])
RLt(a, b) ==
    LET g == GCD(a[2], b[2])
    IN  a[1] * (b[2] \div g) < b[1] * (a[2] \div g)
RLe(a, b) ==
    LET g == GCD(a[2], b[2])
    IN  a[1] * (b[2] \div g) <= b[1] * (a[2] \div g)
RMin2(a, b) == IF RLe(a, b) THEN a ELSE b
RMax2(a, b) == IF RLe(a, b) THEN b ELSE a

RECURSIVE RMinSeq(_)
RMinSeq(s) == IF Len(s) = 1 THEN s[1] ELSE RMin2(s[1], RMinSeq(Tail(s)))
RECURSIVE RMaxSeq(_)
RMaxSeq(s) == IF Len(s) = 1 THEN s[1] ELSE RMax2(s[1], RMaxSeq(Tail(s)))

\* np.clip left out
Clip01_unclipped(v) == v

\* np.clip(v, 0.0, 1.0)
Clip01(v) == RMax2(R(0), RMin2(v, R(1)))

Vec(x, y, z) == [x |-> R(x), y |-> R(y), z |-> R(z)]
\* mathutils.Vector / scalar
VDiv(v, k) == [x |-> RDiv(v.x, k), y |-> RDiv(v.y, k), z |-> RDiv(v.z, k)]

----------------------------------------------------------------------------
(* Projection math: utils.py *)

None == <<>>                    \* Python None
ValueError == <<"ValueError">>  \* a raised ValueError
Eps == <<1, 1000000>>           \* the literal 1e-6

\* x or 1e-6
OrEps(v) == IF v = R(0) THEN Eps ELSE v

\* the corners scaled by z, their own depth taken to be 1
rescale_frame_unit_depth(frame, z) ==
    [k \in DOMAIN frame |-> VDiv(frame[k], RDiv(R(1), z))]

\* frame = [(v / (v.z / z)) for v in frame]
rescale_frame(frame, z) ==
    [k \in DOMAIN frame |-> VDiv(frame[k], RDiv(frame[k].z, z))]

\* the y limits taken as the smaller and the larger of the two corners
frame_extents_sorted_y(frame) ==
    [min_x |-> frame[2].x, max_x |-> frame[3].x,
     min_y |-> RMin2(frame[1].y, frame[2].y),
     max_y |-> RMax2(frame[1].y, frame[2].y)]

\* min_x, max_x = frame[1].x, frame[2].x; min_y, max_y = frame[0].y, frame[1].y
frame_extents(frame) ==
    [min_x |-> frame[2].x, max_x |-> frame[3].x,
     min_y |-> frame[1].y, max_y |-> frame[2].y]

\* the loop with a vertex on the camera plane (z = 0) let through
RECURSIVE cnc_loop_on_plane(_, _, _, _, _)
cnc_loop_on_plane(vertices, i, frame, lx, ly) ==
    IF i > Len(vertices) THEN <<lx, ly>>
    ELSE
        LET co_local == vertices[i]
            z == RNeg(co_local.z)
        IN  IF RLt(z, R(0)) THEN cnc_loop_on_plane(vertices, i + 1, frame, lx, ly)
            ELSE
                LET fr == rescale_frame(frame, z)
                    e == frame_extents(fr)
                    x == RDiv(RSub(co_local.x, e.min_x), RSub(e.max_x, e.min_x))
                    y == RDiv(RSub(co_local.y, e.min_y), RSub(e.max_y, e.min_y))
                IN  cnc_loop_on_plane(vertices, i + 1, fr, Append(lx, x),
                                      Append(ly, y))

\* The loop of calculate_normalized_coordinates from vertex i on; frame is the
\* loop-carried variable the body overwrites.
RECURSIVE cnc_loop(_, _, _, _, _)
cnc_loop(vertices, i, frame, lx, ly) ==
    IF i > Len(vertices) THEN <<lx, ly>>
    ELSE
        LET co_local == vertices[i]
            z == RNeg(co_local.z)
        IN  IF RLe(z, R(0)) THEN cnc_loop(vertices, i + 1, frame, lx, ly)
            ELSE
                LET fr == rescale_frame(frame, z)
                    e == frame_extents(fr)
                    x == RDiv(RSub(co_local.x, e.min_x), RSub(e.max_x, e.min_x))
                    y == RDiv(RSub(co_local.y, e.min_y), RSub(e.max_y, e.min_y))
                IN  cnc_loop(vertices, i + 1, fr, Append(lx, x), Append(ly, y))

calculate_normalized_coordinates(mesh, frame) ==
    cnc_loop(mesh, 1, frame, <<>>, <<>>)

\* width and height of the resolution taken the wrong way round
make_bounding_box_relative_swapped(top_x, top_y, bottom_x, bottom_y, resolution) ==
    IF resolution = None THEN ValueError
    ELSE <<RMul(top_x, R(resolution[2])), RMul(top_y, R(resolution[1])),
           RMul(bottom_x, R(resolution[2])), RMul(bottom_y, R(resolution[1]))>>

make_bounding_box_relative(top_x, top_y, bottom_x, bottom_y, resolution) ==
    IF resolution = None THEN ValueError
    ELSE <<RMul(top_x, R(resolution[1])), RMul(top_y, R(resolution[2])),
           RMul(bottom_x, R(resolution[1])), RMul(bottom_y, R(resolution[2]))>>

\* a box rejected only when both axes are degenerate
compute_bounding_box_both_axes(lx, ly, relative, resolution) ==
    IF lx = <<>> \/ ly = <<>> THEN None
    ELSE
        LET fy == [i \in DOMAIN ly |-> RSub(R(1), ly[i])]
            top_x == Clip01(RMinSeq(lx))
            bottom_x == Clip01(RMaxSeq(lx))
            top_y == Clip01(RMinSeq(fy))
            bottom_y == Clip01(RMaxSeq(fy))
            b == IF relative
                 THEN make_bounding_box_relative(top_x, top_y, bottom_x,
                                                 bottom_y, resolution)
                 ELSE <<top_x, top_y, bottom_x, bottom_y>>
        IN  IF top_x = bottom_x /\ top_y = bottom_y THEN None
            ELSE IF b = ValueError THEN ValueError
            ELSE <<OrEps(b[1]), OrEps(b[2]), RSub(b[3], b[1]), RSub(b[4], b[2])>>

\* sdg_engine: y is flipped before the limits are taken
compute_bounding_box(lx, ly, relative, resolution) ==
    IF lx = <<>> \/ ly = <<>> THEN None
    ELSE
        LET fy == [i \in DOMAIN ly |-> RSub(R(1), ly[i])]
            top_x == Clip01(RMinSeq(lx))
            bottom_x == Clip01(RMaxSeq(lx))
            top_y == Clip01(RMinSeq(fy))
            bottom_y == Clip01(RMaxSeq(fy))
            b == IF relative
                 THEN make_bounding_box_relative(top_x, top_y, bottom_x,
                                                 bottom_y, resolution)
                 ELSE <<top_x, top_y, bottom_x, bottom_y>>
        IN  IF top_x = bottom_x \/ top_y = bottom_y THEN None
            ELSE IF b = ValueError THEN ValueError
            ELSE <<OrEps(b[1]), OrEps(b[2]), RSub(b[3], b[1]), RSub(b[4], b[2])>>

\* blender_sdg: the earlier package, no flip
compute_bounding_box_blender_sdg(lx, ly, relative, resolution) ==
    IF lx = <<>> \/ ly = <<>> THEN None
    ELSE
        LET top_x == Clip01(RMinSeq(lx))
            bottom_x == Clip01(RMaxSeq(lx))
            top_y == Clip01(RMinSeq(ly))
            bottom_y == Clip01(RMaxSeq(ly))
            b == IF relative
                 THEN make_bounding_box_relative(top_x, top_y, bottom_x,
                                                 bottom_y, resolution)
                 ELSE <<top_x, top_y, bottom_x, bottom_y>>
        IN  IF top_x = bottom_x \/ top_y = bottom_y THEN None
            ELSE IF b = ValueError THEN ValueError
            ELSE <<OrEps(b[1]), OrEps(b[2]), RSub(b[3], b[1]), RSub(b[4], b[2])>>

\* camera.object.data.view_frame(scene): top-right, bottom-right, bottom-left,
\* top-left corners of the camera frame, in front of the camera (z < 0)
ViewFrame == <<Vec(1, 1, -1), Vec(1, -1, -1), Vec(-1, -1, -1), Vec(-1, 1, -1)>>

VNeg(v) == [x |-> RNeg(v.x), y |-> RNeg(v.y), z |-> RNeg(v.z)]

\* frame = [-v for v in view_frame[:3]]
CameraFrame == [k \in 1..3 |-> VNeg(ViewFrame[k])]

\* create_bounding_box with the mesh already transformed to camera space
create_bounding_box(mesh, relative, resolution) ==
    LET n == calculate_normalized_coordinates(mesh, CameraFrame)
    IN  compute_bounding_box(n[1], n[2], relative, resolution)

----------------------------------------------------------------------------
(* SpecBox: the projection math applied to bounded inputs *)

\* camera-space vertices: in view, on the frame edge, off frame, on and behind
\* the camera plane, and the two vertices of the (100, 50) scaling scenario
Vertices ==
    {Vec(0, 0, -1), Vec(1, -1, -2),
     Vec(-2, -1, -1), Vec(1, 2, -1), Vec(2, 0, -1),
     Vec(0, 0, 0), Vec(0, 0, 1),
     Vec(-4, 3, -5), Vec(-2, 1, -5)}

Meshes == UNION {[1..n -> Vertices] : n \in 0..MaxVerts}

\* the corners of the single-vertex scenario, given as the frame argument
ScenarioFrame == <<Vec(0, 1, 1), Vec(-1, -1, 1), Vec(1, -1, 1), Vec(0, 1, 1)>>

Frames == {CameraFrame, ScenarioFrame}

\* (relative, resolution) argument pairs
BoxModes == {<<TRUE, <<100, 50>>>>, <<TRUE, None>>, <<FALSE, None>>}

SweepIdle ==
    /\ debug = FALSE /\ folder = "none" /\ listing = <<>> /\ snapshots = <<>>
    /\ pc = "idle" /\ all_background_images = <<>>
    /\ snapshot_idx = 0 /\ bg_idx = 0 /\ scene = None /\ disk = <<>>
    /\ annotation = None /\ current_render_resolution = None /\ elem_i = 0
    /\ dataset = <<>> /\ metadata = None /\ failure = "none" /\ trace = <<>>

BoxIdle ==
    /\ stage = "idle" /\ in_mesh = <<>> /\ in_frame = <<>>
    /\ in_relative = FALSE /\ in_resolution = None
    /\ out_norm = None /\ out_box = None /\ out_variant = "none"

InitBox ==
    /\ SweepIdle
    /\ stage = "input"
    /\ in_mesh \in Meshes
    /\ in_frame \in Frames
    /\ \E m \in BoxModes : in_relative = m[1] /\ in_resolution = m[2]
    /\ out_norm = None /\ out_box = None /\ out_variant = "none"

Normalize ==
    /\ stage = "input"
    /\ out_norm' = calculate_normalized_coordinates(in_mesh, in_frame)
    /\ stage' = "normalized"
    /\ UNCHANGED <<in_mesh, in_frame, in_relative, in_resolution, out_box,
                   out_variant, sweepVars>>

ComputeBox ==
    /\ stage = "normalized"
    /\ out_box' = compute_bounding_box(out_norm[1], out_norm[2], in_relative,
                                       in_resolution)
    /\ out_variant' = "sdg_engine"
    /\ stage' = "boxed"
    /\ UNCHANGED <<in_mesh, in_frame, in_relative, in_resolution, out_norm,
                   sweepVars>>

ComputeBoxBlenderSdg ==
    /\ stage = "normalized"
    /\ out_box' = compute_bounding_box_blender_sdg(out_norm[1], out_norm[2],
                                                   in_relative, in_resolution)
    /\ out_variant' = "blender_sdg"
    /\ stage' = "boxed"
    /\ UNCHANGED <<in_mesh, in_frame, in_relative, in_resolution, out_norm,
                   sweepVars>>

NextBox == Normalize \/ ComputeBox \/ ComputeBoxBlenderSdg

SpecBox == InitBox /\ [][NextBox]_vars

----------------------------------------------------------------------------
(* Inputs of the sweep: snapshots, background folder, scene elements *)

\* One sampled pose; the sweep sampler derives all of it from the sample
Snapshot(id) ==
    [id |-> id, yaw |-> 10 * id, roll |-> 10 * id + 1,
     camera_height |-> 10 * id + 2, light_energy |-> 10 * id + 3]

\* sweep.snapshots: every snapshot of a sweep has an id of its own (a uuid)
Sweeps ==
    {sw \in UNION {[1..n -> {Snapshot(id) : id \in 1..NumIds}] : n \in 0..MaxSnap} :
        \A i, j \in DOMAIN sw : i # j => sw[i].id # sw[j].id}

\* Files of the background folder: f = 1 a.png, 2 b.jpg, 3 c.txt, 4 d.png
\* (unreadable as an image), ...
Files == 1..NumFiles
ExtCycle == <<"png", "jpg", "txt">>
Ext(f) == ExtCycle[((f - 1) % 3) + 1]
Loadable(f) == f % 4 # 0
\* img.size of a loaded background
ImgSize(f) == <<2 * f, f + 1>>

Distinct(seq) == \A i, j \in DOMAIN seq : i # j => seq[i] # seq[j]
Listings ==
    {l \in UNION {[1..n -> Files] : n \in 0..MaxListing} : Distinct(l)}

\* config.resolution
ConfigResolution == <<8, 4>>

\* Camera-space meshes an element can show under a pose: a box in view, fully
\* behind the camera, a box cropped by the frame edge
MeshCatalog ==
    << <<Vec(0, 0, -2), Vec(1, -1, -2)>>,
       <<Vec(0, 0, 1), Vec(0, 0, 0)>>,
       <<Vec(-2, -1, -1), Vec(0, 0, -1)>> >>

\* mesh.transform(element.get_matrix()); mesh.transform(inverse_matrix): the
\* camera-space mesh of element i is fixed by the pose of pivot and camera
MeshInCameraSpace(i, sc) ==
    MeshCatalog[((i + (sc.axis_rotation[1] \div 10) + sc.camera_location[3]) % 3) + 1]

----------------------------------------------------------------------------
(* BlenderScene: scene.py *)

NoImage == <<"no image">>
DefaultColor == <<"0.05", "0.05", "0.05">>

\* The scene as loaded by from_scene_config and BlenderRenderer.__init__
InitialScene ==
    [axis_location |-> <<"file">>, axis_rotation |-> <<"file">>,
     camera_location |-> <<"file">>, light_energy |-> <<"file">>,
     use_nodes |-> TRUE, node_image |-> NoImage, world_color |-> <<"file">>,
     film_transparent |-> TRUE,
     resolution_x |-> ConfigResolution[1], resolution_y |-> ConfigResolution[2],
     resolution_percentage |-> 100, filepath |-> ""]

\* yaw and roll taken the wrong way round
prepare_from_snapshot_swapped(sc, snapshot) ==
    [sc EXCEPT !.axis_location = <<0, 0, 0>>,
               !.axis_rotation = <<snapshot.roll, snapshot.yaw, 0>>,
               !.camera_location = <<0, 0, snapshot.camera_height>>,
               !.light_energy = <<snapshot.light_energy>>]

prepare_from_snapshot(sc, snapshot) ==
    [sc EXCEPT !.axis_location = <<0, 0, 0>>,
               !.axis_rotation = <<snapshot.yaw, snapshot.roll, 0>>,
               !.camera_location = <<0, 0, snapshot.camera_height>>,
               !.light_energy = <<snapshot.light_energy>>]

setup_world_nodes_for_background(sc) ==
    [sc EXCEPT !.use_nodes = TRUE, !.film_transparent = FALSE]

\* the film-transparency flag flipped at each call instead of cleared
set_solid_background_color_toggling(sc) ==
    [sc EXCEPT !.use_nodes = FALSE, !.world_color = DefaultColor,
               !.film_transparent = ~@]

set_solid_background_color(sc) ==
    [sc EXCEPT !.use_nodes = FALSE, !.world_color = DefaultColor,
               !.film_transparent = FALSE]

\* the load failure swallowed with no fallback
set_background_image_no_fallback(sc, image_filepath) ==
    LET s1 == setup_world_nodes_for_background(sc)
    IN  IF Loadable(image_filepath)
        THEN [s1 EXCEPT !.node_image = <<image_filepath>>,
                        !.resolution_x = ImgSize(image_filepath)[1],
                        !.resolution_y = ImgSize(image_filepath)[2],
                        !.resolution_percentage = 100]
        ELSE s1

set_background_image(sc, image_filepath) ==
    LET s1 == setup_world_nodes_for_background(sc)
    IN  IF Loadable(image_filepath)
        THEN [s1 EXCEPT !.node_image = <<image_filepath>>,
                        !.resolution_x = ImgSize(image_filepath)[1],
                        !.resolution_y = ImgSize(image_filepath)[2],
                        !.resolution_percentage = 100]
        ELSE set_solid_background_color(s1)

\* What the world shows behind the objects when the scene is rendered
Backdrop(sc) == IF sc.use_nodes THEN sc.node_image ELSE sc.world_color

----------------------------------------------------------------------------
(* Output file naming: render.py line 200 *)

HexLen == 32        \* uuid.UUID.hex has 32 digits
PadWidth == 4       \* the :04d of bg_idx

DigitChars == <<"0", "1", "2", "3", "4", "5", "6", "7", "8", "9",
                "a", "b", "c", "d", "e", "f">>

RECURSIVE Digits(_, _)
Digits(n, base) ==
    IF n < base THEN DigitChars[n + 1]
    ELSE Digits(n \div base, base) \o DigitChars[(n % base) + 1]

RECURSIVE ZeroPad(_, _)
ZeroPad(str, width) ==
    IF Len(str) >= width THEN str ELSE ZeroPad("0" \o str, width)

\* snapshot.id.hex
Hex(id) == ZeroPad(Digits(id, 16), HexLen)

\* the name without the background index, f"{snapshot.id.hex}"
render_file_base_name_no_index(snapshot, idx) == Hex(snapshot.id)

\* f"{snapshot.id.hex}_{bg_idx:04d}"
render_file_base_name(snapshot, idx) ==
    Hex(snapshot.id) \o "_" \o ZeroPad(Digits(idx, 10), PadWidth)

DotPng == ".png"

----------------------------------------------------------------------------
(* generate_dataset_from_config and BlenderRenderer: render.py *)

image_extensions == <<"png", "jpg", "jpeg", "tiff", "bmp">>

\* glob.glob(os.path.join(folder, "*." + ext)): the files of the listing with
\* that extension, in listing order
Glob(dir, ext) == SelectSeq(dir, LAMBDA f : Ext(f) = ext)

\* lines 152-165: extend all_background_images with one glob per extension
RECURSIVE GlobAll(_, _)
GlobAll(dir, k) ==
    IF k > Len(image_extensions) THEN <<>>
    ELSE Glob(dir, image_extensions[k]) \o GlobAll(dir, k + 1)

ResolveBackgrounds ==
    IF folder = "dir" THEN GlobAll(listing, 1) ELSE <<>>

\* line 181 without the fallback entry
backgrounds_to_render_no_fallback ==
    [k \in DOMAIN all_background_images |-> <<all_background_images[k]>>]

\* line 181; the fallback entry [None] is the list <<None>>
backgrounds_to_render ==
    IF all_background_images # <<>>
    THEN [k \in DOMAIN all_background_images |-> <<all_background_images[k]>>]
    ELSE <<None>>

Event(op) ==
    [op |-> op, s |-> snapshot_idx, b |-> bg_idx,
     resolution |-> <<scene.resolution_x, scene.resolution_y>>]

Init ==
    /\ BoxIdle
    /\ debug \in BOOLEAN
    /\ folder \in {"none", "not_a_directory", "dir"}
    /\ listing \in Listings
    /\ folder # "dir" => listing = <<>>
    /\ snapshots \in Sweeps
    /\ pc = "resolve"
    /\ all_background_images = <<>>
    /\ snapshot_idx = 0 /\ bg_idx = 0 /\ elem_i = 0
    /\ scene = InitialScene
    /\ disk = <<>>
    /\ annotation = None
    /\ current_render_resolution = None
    /\ dataset = <<>>
    /\ metadata = [exists |-> FALSE, lines |-> <<>>, opens |-> 0, closed |-> FALSE]
    /\ failure = "none"
    /\ trace = <<>>

\* lines 152-165
Resolve ==
    /\ pc = "resolve"
    /\ all_background_images' = ResolveBackgrounds
    /\ pc' = "snapshot_loop"
    /\ UNCHANGED <<debug, folder, listing, snapshots, snapshot_idx, bg_idx,
                   scene, disk, annotation, current_render_resolution, elem_i,
                   dataset, metadata, failure, trace, boxVars>>

\* lines 174-176: next iteration of the outer loop
PrepareFromSnapshot ==
    /\ pc = "snapshot_loop"
    /\ snapshot_idx < Len(snapshots)
    /\ scene' = prepare_from_snapshot(scene, snapshots[snapshot_idx + 1])
    /\ bg_idx' = 0
    /\ trace' = Append(trace, [Event("prepare_from_snapshot") EXCEPT !.b = -1])
    /\ pc' = "background_loop"
    /\ UNCHANGED <<debug, folder, listing, snapshots, all_background_images,
                   snapshot_idx, disk, annotation, current_render_resolution,
                   elem_i, dataset, metadata, failure, boxVars>>

\* line 174: the outer loop is exhausted
SweepDone ==
    /\ pc = "snapshot_loop"
    /\ snapshot_idx >= Len(snapshots)
    /\ pc' = IF debug THEN "animation" ELSE "open"
    /\ UNCHANGED <<debug, folder, listing, snapshots, all_background_images,
                   snapshot_idx, bg_idx, scene, disk, annotation,
                   current_render_resolution, elem_i, dataset, metadata,
                   failure, trace, boxVars>>

\* The scene after lines 184-195 for one entry of backgrounds_to_render
apply_background(sc, background_filepath) ==
    IF background_filepath # None
    THEN set_background_image(sc, background_filepath[1])
    ELSE [set_solid_background_color(sc) EXCEPT
              !.resolution_x = ConfigResolution[1],
              !.resolution_y = ConfigResolution[2],
              !.resolution_percentage = 100]

\* lines 183-195: next iteration of the inner loop
ApplyBackground ==
    /\ pc = "background_loop"
    /\ bg_idx < Len(backgrounds_to_render)
    /\ scene' = apply_background(scene, backgrounds_to_render[bg_idx + 1])
    /\ trace' = Append(trace, Event("apply_background"))
    /\ pc' = "render"
    /\ UNCHANGED <<debug, folder, listing, snapshots, all_background_images,
                   snapshot_idx, bg_idx, disk, annotation,
                   current_render_resolution, elem_i, dataset, metadata,
                   failure, boxVars>>

\* line 183: the inner loop is exhausted
BackgroundsDone ==
    /\ pc = "background_loop"
    /\ bg_idx >= Len(backgrounds_to_render)
    /\ snapshot_idx' = snapshot_idx + 1
    /\ pc' = "snapshot_loop"
    /\ UNCHANGED <<debug, folder, listing, snapshots, all_background_images,
                   bg_idx, scene, disk, annotation, current_render_resolution,
                   elem_i, dataset, metadata, failure, trace, boxVars>>

\* lines 200-203 and render_snapshot: the frame is written to disk
RenderSnapshot ==
    /\ pc = "render"
    /\ LET name == render_file_base_name(snapshots[snapshot_idx + 1], bg_idx)
                       \o DotPng
           sc == [scene EXCEPT !.filepath = name]
       IN  /\ scene' = sc
           /\ disk' = Append(disk, [file_name |-> name, s |-> snapshot_idx,
                                    b |-> bg_idx, scene |-> sc])
    /\ trace' = Append(trace, Event("render"))
    /\ pc' = "annotate"
    /\ UNCHANGED <<debug, folder, listing, snapshots, all_background_images,
                   snapshot_idx, bg_idx, annotation, current_render_resolution,
                   elem_i, dataset, metadata, failure, boxVars>>

\* bpy.ops.render.render raises: nothing catches it
RenderFails ==
    /\ pc = "render"
    /\ failure' = "render"
    /\ pc' = "failed"
    /\ UNCHANGED <<debug, folder, listing, snapshots, all_background_images,
                   snapshot_idx, bg_idx, scene, disk, annotation,
                   current_render_resolution, elem_i, dataset, metadata,
                   trace, boxVars>>

\* renderer.resolution read instead of the scene's render settings
read_render_resolution_configured(sc) == ConfigResolution

\* The resolution annotate_snapshot reads, lines 106-109
read_render_resolution(sc) == <<sc.resolution_x, sc.resolution_y>>

\* annotate_snapshot lines 93-109
AnnotateSnapshot ==
    /\ pc = "annotate"
    /\ annotation' =
           [file_name |-> render_file_base_name(snapshots[snapshot_idx + 1],
                                                bg_idx) \o DotPng,
            objects |-> [bbox |-> <<>>, categories |-> <<>>]]
    /\ current_render_resolution' = read_render_resolution(scene)
    /\ elem_i' = 0
    /\ trace' = Append(trace, [Event("annotate") EXCEPT
                                   !.resolution = read_render_resolution(scene)])
    /\ pc' = "annotate_loop"
    /\ UNCHANGED <<debug, folder, listing, snapshots, all_background_images,
                   snapshot_idx, bg_idx, scene, disk, dataset, metadata,
                   failure, boxVars>>

\* the category taken as the count of boxes kept so far
annotate_element_counting(a, i, bounding_box) ==
    IF bounding_box = None THEN a
    ELSE [a EXCEPT !.objects.bbox = Append(@, bounding_box),
                   !.objects.categories = Append(@, Len(@))]

\* One iteration of the loop of annotate_snapshot, lines 112-124, on the
\* annotation a with element index i and bounding box bounding_box
annotate_element(a, i, bounding_box) ==
    IF bounding_box = None THEN a
    ELSE [a EXCEPT !.objects.bbox = Append(@, bounding_box),
                   !.objects.categories = Append(@, i)]

AnnotateElement ==
    /\ pc = "annotate_loop"
    /\ elem_i < NumElements
    /\ annotation' = annotate_element(annotation, elem_i,
           create_bounding_box(MeshInCameraSpace(elem_i, scene), TRUE,
                               current_render_resolution))
    /\ elem_i' = elem_i + 1
    /\ UNCHANGED <<debug, folder, listing, snapshots, all_background_images,
                   snapshot_idx, bg_idx, scene, disk, pc,
                   current_render_resolution, dataset, metadata, failure,
                   trace, boxVars>>

\* line 126, then line 212
AnnotateReturn ==
    /\ pc = "annotate_loop"
    /\ elem_i >= NumElements
    /\ pc' = IF debug THEN "draw" ELSE "append"
    /\ UNCHANGED <<debug, folder, listing, snapshots, all_background_images,
                   snapshot_idx, bg_idx, scene, disk, annotation,
                   current_render_resolution, elem_i, dataset, metadata,
                   failure, trace, boxVars>>

\* lines 212-217: draw_bounding_box_with_category returns
DrawBoundingBox ==
    /\ pc = "draw"
    /\ trace' = Append(trace, Event("draw"))
    /\ pc' = "append"
    /\ UNCHANGED <<debug, folder, listing, snapshots, all_background_images,
                   snapshot_idx, bg_idx, scene, disk, annotation,
                   current_render_resolution, elem_i, dataset, metadata,
                   failure, boxVars>>

\* draw_bounding_box_with_category raises (Image.open, image.save): the call
\* at line 213 is not guarded
DrawFails ==
    /\ pc = "draw"
    /\ failure' = "draw"
    /\ pc' = "failed"
    /\ UNCHANGED <<debug, folder, listing, snapshots, all_background_images,
                   snapshot_idx, bg_idx, scene, disk, annotation,
                   current_render_resolution, elem_i, dataset, metadata,
                   trace, boxVars>>

\* insert(0, a) in place of append
append_annotation_front(anns, a) == <<a>> \o anns

\* line 219 on the list anns
append_annotation(anns, a) == Append(anns, a)

\* line 219, then the next inner iteration
AppendAnnotation ==
    /\ pc = "append"
    /\ dataset' = append_annotation(dataset, annotation)
    /\ trace' = Append(trace, Event("append"))
    /\ bg_idx' = bg_idx + 1
    /\ pc' = "background_loop"
    /\ UNCHANGED <<debug, folder, listing, snapshots, all_background_images,
                   snapshot_idx, scene, disk, annotation,
                   current_render_resolution, elem_i, metadata, failure,
                   boxVars>>

\* lines 223-224: render_annotation_animation returns. With no annotation it
\* reaches warnings.warn, and utils.py does not import warnings.
RenderAnimation ==
    /\ pc = "animation"
    /\ dataset # <<>>
    /\ trace' = Append(trace, Event("animation"))
    /\ pc' = "open"
    /\ UNCHANGED <<debug, folder, listing, snapshots, all_background_images,
                   snapshot_idx, bg_idx, scene, disk, annotation,
                   current_render_resolution, elem_i, dataset, metadata,
                   failure, boxVars>>

\* render_annotation_animation raises (Image.open, save, or the NameError)
AnimationFails ==
    /\ pc = "animation"
    /\ failure' = "animation"
    /\ pc' = "failed"
    /\ UNCHANGED <<debug, folder, listing, snapshots, all_background_images,
                   snapshot_idx, bg_idx, scene, disk, annotation,
                   current_render_resolution, elem_i, dataset, metadata,
                   trace, boxVars>>

\* annotation.model_dump_json() + "\n"
model_dump_json(a) ==
    <<"{", "file_name", a.file_name, "objects",
      <<"{", "bbox", a.objects.bbox, "categories", a.objects.categories, "}">>,
      "}", "\n">>

\* line 227: open(..., "w") creates or truncates the file
OpenMetadata ==
    /\ pc = "open"
    /\ metadata' = [metadata EXCEPT !.exists = TRUE, !.lines = <<>>,
                                    !.opens = @ + 1]
    /\ pc' = "write"
    /\ UNCHANGED <<debug, folder, listing, snapshots, all_background_images,
                   snapshot_idx, bg_idx, scene, disk, annotation,
                   current_render_resolution, elem_i, dataset, failure, trace,
                   boxVars>>

\* open raises (the split directory is missing or not writable)
OpenFails ==
    /\ pc = "open"
    /\ failure' = "open"
    /\ pc' = "failed"
    /\ UNCHANGED <<debug, folder, listing, snapshots, all_background_images,
                   snapshot_idx, bg_idx, scene, disk, annotation,
                   current_render_resolution, elem_i, dataset, metadata,
                   trace, boxVars>>

\* lines 228-229: one iteration of the write loop
WriteLine ==
    /\ pc = "write"
    /\ Len(metadata.lines) < Len(dataset)
    /\ metadata' = [metadata EXCEPT !.lines =
                        Append(@, model_dump_json(dataset[Len(@) + 1]))]
    /\ UNCHANGED <<debug, folder, listing, snapshots, all_background_images,
                   snapshot_idx, bg_idx, scene, disk, annotation,
                   current_render_resolution, elem_i, dataset, failure, trace,
                   pc, boxVars>>

\* f.write raises (disk full, I/O error): the with block closes the file and
\* the exception leaves the function
WriteFails ==
    /\ pc = "write"
    /\ Len(metadata.lines) < Len(dataset)
    /\ metadata' = [metadata EXCEPT !.closed = TRUE]
    /\ failure' = "write"
    /\ pc' = "failed"
    /\ UNCHANGED <<debug, folder, listing, snapshots, all_background_images,
                   snapshot_idx, bg_idx, scene, disk, annotation,
                   current_render_resolution, elem_i, dataset, trace, boxVars>>

\* the with block ends, line 231 returns the dataset
CloseMetadata ==
    /\ pc = "write"
    /\ Len(metadata.lines) >= Len(dataset)
    /\ metadata' = [metadata EXCEPT !.closed = TRUE]
    /\ pc' = "done"
    /\ UNCHANGED <<debug, folder, listing, snapshots, all_background_images,
                   snapshot_idx, bg_idx, scene, disk, annotation,
                   current_render_resolution, elem_i, dataset, failure, trace,
                   boxVars>>

Next ==
    \/ Resolve
    \/ PrepareFromSnapshot
    \/ SweepDone
    \/ ApplyBackground
    \/ BackgroundsDone
    \/ RenderSnapshot
    \/ RenderFails
    \/ AnnotateSnapshot
    \/ AnnotateElement
    \/ AnnotateReturn
    \/ DrawBoundingBox
    \/ DrawFails
    \/ AppendAnnotation
    \/ RenderAnimation
    \/ AnimationFails
    \/ OpenMetadata
    \/ OpenFails
    \/ WriteLine
    \/ WriteFails
    \/ CloseMetadata

Spec == Init /\ [][Next]_vars

----------------------------------------------------------------------------
(* Properties of the sweep (Spec) *)

Max(a, b) == IF a >= b THEN a ELSE b
Range(seq) == {seq[k] : k \in DOMAIN seq}
IsPrefix(a, b) == Len(a) <= Len(b) /\ \A k \in DOMAIN a : a[k] = b[k]

\* N: the files of the folder that carry a supported image extension
NumBackgroundFiles ==
    IF folder = "dir"
    THEN Cardinality({k \in DOMAIN listing :
                         Ext(listing[k]) \in Range(image_extensions)})
    ELSE 0

\* calls of one kind made for snapshot s so far
Calls(op, s) == Cardinality({k \in DOMAIN trace : trace[k].op = op /\ trace[k].s = s})

\* C1: for every snapshot of the sweep the inner loop makes exactly max(1, N)
\* passes (render, annotation, append), N the number of background files
\* resolved; a completed run holds |snapshots| * max(1, N) annotations.
C1_PassesPerSnapshot ==
    /\ \A s \in 0..(Len(snapshots) - 1) :
           snapshot_idx > s =>
               /\ Calls("render", s) = Max(1, NumBackgroundFiles)
               /\ Calls("annotate", s) = Max(1, NumBackgroundFiles)
               /\ Calls("append", s) = Max(1, NumBackgroundFiles)
    /\ pc = "done" =>
           /\ Len(dataset) = Len(snapshots) * Max(1, NumBackgroundFiles)
           /\ Len(disk) = Len(dataset)

\* a completed run over a folder that holds no image: one solid pass each
C1_Witness ==
    /\ pc = "done" /\ folder = "dir" /\ listing # <<>>
    /\ all_background_images = <<>>
    /\ Len(snapshots) = 2 /\ Len(dataset) = 2
    /\ \A k \in DOMAIN disk : Backdrop(disk[k].scene) = DefaultColor

\* C2: the annotation of a pair is built right after the render of that pair
\* has written its frame, with no call on the scene in between, and the
\* resolution its boxes are computed with is the render-target resolution
\* the frame was rendered at.
C2_AnnotateAfterRender ==
    /\ \A k \in DOMAIN trace :
           trace[k].op = "annotate" =>
               /\ k > 1
               /\ trace[k - 1].op = "render"
               /\ trace[k - 1].s = trace[k].s /\ trace[k - 1].b = trace[k].b
               /\ trace[k - 1].resolution = trace[k].resolution
    /\ pc \in {"annotate_loop", "draw", "append"} =>
           /\ disk # <<>>
           /\ LET frame == disk[Len(disk)]
              IN  /\ frame.s = snapshot_idx /\ frame.b = bg_idx
                  /\ frame.file_name = annotation.file_name
                  /\ frame.scene = scene
                  /\ current_render_resolution =
                         <<frame.scene.resolution_x, frame.scene.resolution_y>>

\* all boxes of a frame rendered at a background image's size are computed
C2_Witness ==
    /\ pc = "annotate_loop" /\ elem_i = NumElements
    /\ current_render_resolution # ConfigResolution
    /\ annotation.objects.bbox # <<>>

\* the entry of the resolved background list a frame belongs to
EntryOf(b) ==
    IF NumBackgroundFiles = 0 THEN None ELSE <<all_background_images[b + 1]>>

\* the backdrop an entry stands for: its image, or the solid colour for the
\* fallback entry and for an image that cannot be loaded
BackdropOf(entry) ==
    IF entry # None /\ Loadable(entry[1]) THEN entry ELSE DefaultColor

\* the latest call of one kind among the first k calls, 0 if there is none
RECURSIVE LastCall(_, _)
LastCall(op, k) ==
    IF k = 0 THEN 0
    ELSE IF trace[k].op = op THEN k ELSE LastCall(op, k - 1)

\* C3: before each render the pose of the pair's snapshot has been applied
\* and, after it, the background of the pair's entry; the frame is rendered
\* with the pivot rotation, camera height and light energy of that snapshot
\* and the backdrop of that entry.
C3_PoseThenBackground ==
    /\ \A k \in DOMAIN trace :
           trace[k].op = "render" =>
               /\ k > 1
               /\ trace[k - 1].op = "apply_background"
               /\ trace[k - 1].s = trace[k].s /\ trace[k - 1].b = trace[k].b
               /\ LET p == LastCall("prepare_from_snapshot", k - 2)
                  IN  p > 0 /\ trace[p].s = trace[k].s
    /\ \A k \in DOMAIN disk :
           LET snapshot == snapshots[disk[k].s + 1]
               sc == disk[k].scene
           IN  /\ sc.axis_location = <<0, 0, 0>>
               /\ sc.axis_rotation = <<snapshot.yaw, snapshot.roll, 0>>
               /\ sc.camera_location = <<0, 0, snapshot.camera_height>>
               /\ sc.light_energy = <<snapshot.light_energy>>
               /\ Backdrop(sc) = BackdropOf(EntryOf(disk[k].b))

\* the second snapshot rendered over the second background image, after the
\* first snapshot was rendered over both
C3_Witness ==
    /\ Len(disk) = 4
    /\ disk[4].s = 1 /\ disk[4].b = 1
    /\ snapshots[1].id # snapshots[2].id
    /\ disk[3].scene.use_nodes /\ disk[4].scene.use_nodes
    /\ disk[3].scene.node_image # disk[4].scene.node_image

\* C4: the metadata file is opened for writing once, after the whole sweep,
\* and holds one line per annotation when the run completes; a run aborted by
\* a failure leaves the file absent or complete, never partly written.
C4_NoHalfWrittenMetadata ==
    /\ metadata.opens <= 1
    /\ metadata.exists => snapshot_idx >= Len(snapshots)
    /\ pc = "done" => Len(metadata.lines) = Len(dataset)
    /\ pc = "failed" =>
           \/ ~metadata.exists
           \/ Len(metadata.lines) = Len(snapshots) * Max(1, NumBackgroundFiles)

\* C5: the debug calls are made only once the annotation they concern is
\* built, and a debug call that fails costs neither the annotation its place
\* in the dataset nor the run its metadata file.
C5_DebugFailureHarmless ==
    /\ \A k \in DOMAIN trace :
           trace[k].op = "draw" =>
               \E j \in 1..(k - 1) :
                   /\ trace[j].op = "annotate"
                   /\ trace[j].s = trace[k].s /\ trace[j].b = trace[k].b
    /\ (pc = "failed" /\ failure = "draw") =>
           /\ annotation \in Range(dataset)
           /\ metadata.exists /\ Len(metadata.lines) = Len(dataset)
    /\ (pc = "failed" /\ failure = "animation") =>
           /\ metadata.exists /\ Len(metadata.lines) = Len(dataset)

UniqueIds == \A i, j \in DOMAIN snapshots :
                 i # j => snapshots[i].id # snapshots[j].id

\* C6: the file name of a frame is fixed by (snapshot.id, bg_idx) alone, no
\* other field of the snapshot being read, and when the snapshot ids are
\* unique no two frames and no two annotations of a run share a name.
C6_UniqueFileNames ==
    /\ \A k \in DOMAIN disk :
           disk[k].file_name =
               render_file_base_name([id |-> snapshots[disk[k].s + 1].id],
                                     disk[k].b) \o DotPng
    /\ UniqueIds =>
           /\ \A i, j \in DOMAIN disk :
                  i # j => disk[i].file_name # disk[j].file_name
           /\ \A i, j \in DOMAIN dataset :
                  i # j => dataset[i].file_name # dataset[j].file_name

C6_Witness ==
    /\ pc = "done" /\ UniqueIds
    /\ Len(snapshots) = 2 /\ Len(all_background_images) = 2
    /\ Len(disk) = 4 /\ Len(dataset) = 4

\* The boxes and categories the first n elements must have left: the box of
\* every element whose box is not null, with the element's position
RECURSIVE KeptObjects(_, _, _)
KeptObjects(n, sc, res) ==
    IF n = 0 THEN [bbox |-> <<>>, categories |-> <<>>]
    ELSE LET rest == KeptObjects(n - 1, sc, res)
             box == create_bounding_box(MeshInCameraSpace(n - 1, sc), TRUE, res)
         IN  IF box = None THEN rest
             ELSE [bbox |-> Append(rest.bbox, box),
                   categories |-> Append(rest.categories, n - 1)]

Paired(a) ==
    /\ Len(a.objects.bbox) = Len(a.objects.categories)
    /\ \A k \in DOMAIN a.objects.categories :
           /\ a.objects.categories[k] \in 0..(NumElements - 1)
           /\ k > 1 => a.objects.categories[k - 1] < a.objects.categories[k]

PairFileName(k) ==
    LET m == Max(1, NumBackgroundFiles)
    IN  render_file_base_name(snapshots[((k - 1) \div m) + 1], (k - 1) % m)
            \o DotPng

SweepOrder ==
    /\ \A k \in DOMAIN dataset : dataset[k].file_name = PairFileName(k)
    /\ \A k \in DOMAIN metadata.lines :
           k <= Len(dataset) /\ metadata.lines[k] = model_dump_json(dataset[k])
    /\ pc = "done" => Len(metadata.lines) = Len(dataset)

\* C8: the dataset starts empty and only grows by appending (what it holds
\* is never removed, moved or replaced); its annotations are in sweep order,
\* snapshot-major and background-minor, and the lines of the metadata file
\* are the annotations in that order.
C8_GrowsInSweepOrder ==
    /\ dataset = <<>>
    /\ [][IsPrefix(dataset, dataset')]_vars
    /\ []SweepOrder

C8_Witness ==
    /\ pc = "done" /\ Len(dataset) = 4 /\ Len(metadata.lines) = 4
    /\ Len(snapshots) = 2 /\ dataset[1].file_name # dataset[2].file_name

----------------------------------------------------------------------------
(* Properties of the background fallbacks (Spec) *)

\* the entry of rendered frame k is an image that cannot be loaded
FailedLoad(k) ==
    LET entry == EntryOf(disk[k].b) IN entry # None /\ ~Loadable(entry[1])

\* the resolved background files that cannot be loaded
Unloadable ==
    {k \in DOMAIN all_background_images : ~Loadable(all_background_images[k])}

SolidMode(sc) ==
    /\ sc.use_nodes = FALSE /\ sc.world_color = DefaultColor
    /\ sc.film_transparent = FALSE

\* C14: after a background image fails to load the scene is in solid-colour
\* mode (world nodes off, the solid colour set) and the sweep goes on to the
\* render of that pair; every frame of such a pair is rendered in that mode,
\* and a completed run holds one annotation per pair, the pairs of
\* unloadable images included.
C14_LoadFailureFallsBack ==
    /\ (/\ pc = "render" /\ all_background_images # <<>>
        /\ ~Loadable(all_background_images[bg_idx + 1]))
           => SolidMode(scene) /\ failure = "none"
    /\ \A k \in DOMAIN disk : FailedLoad(k) => SolidMode(disk[k].scene)
    /\ pc = "done" =>
           /\ Len(dataset) =
                  Len(snapshots) * Max(1, Len(all_background_images))
           /\ Cardinality({k \in DOMAIN disk : FailedLoad(k)}) =
                  Len(snapshots) * Cardinality(Unloadable)

\* a completed run of two snapshots whose first background cannot be loaded
\* and whose second can
C14_Witness ==
    /\ pc = "done" /\ Len(snapshots) = 2
    /\ Len(all_background_images) = 2
    /\ ~Loadable(all_background_images[1]) /\ Loadable(all_background_images[2])
    /\ Len(dataset) = 4
    /\ SolidMode(disk[3].scene)

\* background mode, colour, film transparency and render resolution
BackgroundState(sc) ==
    <<sc.use_nodes, sc.world_color, sc.film_transparent, sc.resolution_x,
      sc.resolution_y, sc.resolution_percentage>>

PoseState(sc) ==
    <<sc.axis_location, sc.axis_rotation, sc.camera_location, sc.light_energy>>

\* C15: from every scene state of a run, the solid-colour background applied
\* twice leaves the same background mode, colour, film transparency and
\* render resolution as applied once, and a snapshot applied twice leaves the
\* same pose as applied once; in a run with no background image every frame
\* is rendered in the same background state.
C15_Idempotent ==
    /\ LET once == apply_background(scene, None)
       IN  BackgroundState(apply_background(once, None)) = BackgroundState(once)
    /\ \A k \in DOMAIN snapshots :
           LET once == prepare_from_snapshot(scene, snapshots[k])
           IN  PoseState(prepare_from_snapshot(once, snapshots[k])) =
                   PoseState(once)
    /\ all_background_images = <<>> =>
           \A k \in DOMAIN disk :
               BackgroundState(disk[k].scene) = BackgroundState(disk[1].scene)

\* the solid colour applied for the second snapshot of a run with no
\* background image, on a scene that already shows it
C15_Witness ==
    /\ pc = "render" /\ snapshot_idx = 1 /\ all_background_images = <<>>
    /\ Len(disk) = 1
    /\ BackgroundState(scene) = BackgroundState(disk[1].scene)
    /\ BackgroundState(scene) # BackgroundState(InitialScene)

\* C17 as stated: a frame rendered in solid-colour mode is rendered, and
\* annotated, at the configured resolution.
C17_SolidAtConfiguredResolution ==
    /\ \A k \in DOMAIN disk :
           ~disk[k].scene.use_nodes =>
               <<disk[k].scene.resolution_x, disk[k].scene.resolution_y>> =
                   ConfigResolution
    /\ (pc \in {"annotate_loop", "draw", "append"} /\ ~scene.use_nodes) =>
           current_render_resolution = ConfigResolution

----------------------------------------------------------------------------
(* Properties of the projection math (SpecBox) *)

IsBox(b) == Len(b) = 4

\* compute_bounding_box has returned, relative mode, resolution (W, H)
BoxedRelative == stage = "boxed" /\ in_relative /\ in_resolution # None

lxs == out_norm[1]
lys == out_norm[2]

\* some vertex in front of the camera lies strictly inside the frustum bounds
OneInside ==
    \E k \in DOMAIN lxs :
        /\ RLt(R(0), lxs[k]) /\ RLt(lxs[k], R(1))
        /\ RLt(R(0), lys[k]) /\ RLt(lys[k], R(1))

\* the clamped extents of the given coordinates differ on both axes
NonDegenerate ==
    /\ lxs # <<>> /\ lys # <<>>
    /\ Clip01(RMinSeq(lxs)) # Clip01(RMaxSeq(lxs))
    /\ Clip01(RMinSeq(lys)) # Clip01(RMaxSeq(lys))

Within(b, W, H) ==
    /\ RLe(R(0), b[1]) /\ RLe(b[1], RAdd(b[1], b[3])) /\ RLe(RAdd(b[1], b[3]), R(W))
    /\ RLe(R(0), b[2]) /\ RLe(b[2], RAdd(b[2], b[4])) /\ RLe(RAdd(b[2], b[4]), R(H))

\* C9 as stated: with a vertex strictly inside the frustum bounds the box is
\* not null and 0 <= top_x <= top_x + width <= W, 0 <= top_y <= top_y + height <= H.
C9_AsStated ==
    (BoxedRelative /\ OneInside) =>
        /\ IsBox(out_box)
        /\ Within(out_box, in_resolution[1], in_resolution[2])

\* one axis of a box: the top is positive, the extent is positive, the far
\* side exceeds the resolution by at most the 1e-6 a zero top is moved by
AxisWithin(top, extent, size) ==
    /\ RLt(R(0), top) /\ RLt(R(0), extent)
    /\ RLe(RAdd(top, extent), RAdd(R(size), Eps))
    /\ top # Eps => RLe(RAdd(top, extent), R(size))

\* C9 amended: with a vertex strictly inside the frustum bounds and clamped
\* extents that differ on both axes, the box is not null, 0 < top_x,
\* 0 < width and top_x + width <= W + 1e-6 (<= W unless top_x is the 1e-6
\* that stands for a zero top); likewise for y and H.
C9_BoxWithinResolution ==
    (BoxedRelative /\ OneInside /\ NonDegenerate) =>
        /\ IsBox(out_box)
        /\ AxisWithin(out_box[1], out_box[3], in_resolution[1])
        /\ AxisWithin(out_box[2], out_box[4], in_resolution[2])

\* a box that spans the whole frame width: its far side lies 1e-6 beyond W
C9_Witness ==
    /\ BoxedRelative /\ OneInside /\ NonDegenerate
    /\ out_variant = "sdg_engine"
    /\ out_box[1] = Eps
    /\ RLt(R(in_resolution[1]), RAdd(out_box[1], out_box[3]))

\* C10 as stated: top_x = clamp(min xs) W, top_y = clamp(min ys) H,
\* width = (clamp(max xs) - clamp(min xs)) W,
\* height = (clamp(max ys) - clamp(min ys)) H, xs and ys as given.
C10_AsStated ==
    (BoxedRelative /\ NonDegenerate) =>
        /\ IsBox(out_box)
        /\ out_box =
               <<RMul(Clip01(RMinSeq(lxs)), R(in_resolution[1])),
                 RMul(Clip01(RMinSeq(lys)), R(in_resolution[2])),
                 RMul(RSub(Clip01(RMaxSeq(lxs)), Clip01(RMinSeq(lxs))),
                      R(in_resolution[1])),
                 RMul(RSub(Clip01(RMaxSeq(lys)), Clip01(RMinSeq(lys))),
                      R(in_resolution[2]))>>

\* the clamped lower y limit each package takes: sdg_engine flips y first
ClampedTopY ==
    IF out_variant = "sdg_engine"
    THEN RSub(R(1), Clip01(RMaxSeq(lys)))
    ELSE Clip01(RMinSeq(lys))

ZeroAsEps(v) == IF v[1] = 0 THEN Eps ELSE v

\* C10 amended: top_x = clamp(min xs) W and top_y = clamp(min ys') H, where
\* ys' is ys in blender_sdg and 1 - ys in sdg_engine, a top of 0 being
\* returned as 1e-6; width = (clamp(max xs) - clamp(min xs)) W and
\* height = (clamp(max ys) - clamp(min ys)) H. Clamped bounds
\* (0.1, 0.2, 0.3, 0.4) at (100, 50) give the box (10, 10, 20, 10).
C10_BoxFromClampedLimits ==
    (BoxedRelative /\ NonDegenerate) =>
        /\ IsBox(out_box)
        /\ out_box =
               <<ZeroAsEps(RMul(Clip01(RMinSeq(lxs)), R(in_resolution[1]))),
                 ZeroAsEps(RMul(ClampedTopY, R(in_resolution[2]))),
                 RMul(RSub(Clip01(RMaxSeq(lxs)), Clip01(RMinSeq(lxs))),
                      R(in_resolution[1])),
                 RMul(RSub(Clip01(RMaxSeq(lys)), Clip01(RMinSeq(lys))),
                      R(in_resolution[2]))>>
        /\ (/\ in_resolution = <<100, 50>>
            /\ Clip01(RMinSeq(lxs)) = <<1, 10>> /\ Clip01(RMaxSeq(lxs)) = <<3, 10>>
            /\ ClampedTopY = <<1, 5>>
            /\ RSub(Clip01(RMaxSeq(lys)), Clip01(RMinSeq(lys))) = <<1, 5>>)
           => out_box = <<R(10), R(10), R(20), R(10)>>

\* the scenario of the (100, 50) resolution, computed by sdg_engine
C10_Witness ==
    /\ BoxedRelative /\ NonDegenerate
    /\ out_variant = "sdg_engine"
    /\ in_resolution = <<100, 50>>
    /\ Clip01(RMinSeq(lxs)) = <<1, 10>> /\ Clip01(RMaxSeq(lxs)) = <<3, 10>>
    /\ ClampedTopY = <<1, 5>>
    /\ out_box = <<R(10), R(10), R(20), R(10)>>

\* the positions of the vertices in front of the camera: depth -z > 0
Visible(mesh) == {k \in DOMAIN mesh : RLt(R(0), RNeg(mesh[k].z))}

\* calculate_normalized_coordinates has returned
Normalized == stage \in {"normalized", "boxed"}

\* C11: calculate_normalized_coordinates emits exactly one x and one y per
\* vertex of depth z = -v.z > 0 and none for a vertex of depth z <= 0, so the
\* two lists have equal length; when every vertex has z <= 0 both lists are
\* empty and compute_bounding_box returns null.
C11_HiddenVerticesDropped ==
    Normalized =>
        /\ Len(lxs) = Cardinality(Visible(in_mesh))
        /\ Len(lys) = Len(lxs)
        /\ Visible(in_mesh) = {} =>
               /\ lxs = <<>> /\ lys = <<>>
               /\ stage = "boxed" => out_box = None

\* a mesh with a vertex on the camera plane, one behind it and one in front
C11_Witness ==
    /\ stage = "boxed"
    /\ \E i, j, k \in DOMAIN in_mesh :
           /\ in_mesh[i].z = R(0) /\ in_mesh[j].z = R(1) /\ in_mesh[k].z = R(-1)
    /\ Len(lxs) = 1 /\ Len(lys) = 1
    /\ out_box = None

\* the clamped extents coincide on x or on y
Degenerate ==
    \/ Clip01(RMinSeq(lxs)) = Clip01(RMaxSeq(lxs))
    \/ Clip01(RMinSeq(lys)) = Clip01(RMaxSeq(lys))

\* the given coordinates lie wholly at or beyond one side of [0, 1]
OutsideUnit(s) == RLe(RMaxSeq(s), R(0)) \/ RLe(R(1), RMinSeq(s))

\* a clamped extent lies on 0 or on 1
TouchesEdge(s) ==
    \/ Clip01(RMinSeq(s)) = R(0) \/ Clip01(RMaxSeq(s)) = R(1)

\* C12: for non-empty coordinate lists compute_bounding_box (either package)
\* returns null exactly when the clamped min equals the clamped max on x or
\* on y: equal x (or y) gives null whatever the other axis, coordinates
\* wholly outside [0, 1] on an axis give null, and a box with a clamped
\* bound on 0 or 1 but distinct clamped bounds on both axes is not null.
C12_NullIffDegenerate ==
    (stage = "boxed" /\ lxs # <<>> /\ lys # <<>>) =>
        /\ (out_box = None) <=> Degenerate
        /\ (RMinSeq(lxs) = RMaxSeq(lxs) \/ RMinSeq(lys) = RMaxSeq(lys))
               => out_box = None
        /\ (OutsideUnit(lxs) \/ OutsideUnit(lys)) => out_box = None
        /\ ((TouchesEdge(lxs) \/ TouchesEdge(lys)) /\ ~Degenerate)
               => out_box # None

\* x coordinates 1 and 3/2 with distinct y: the box collapses by clamping
C12_Witness ==
    /\ stage = "boxed" /\ out_variant = "sdg_engine"
    /\ Len(lxs) = 2
    /\ RMinSeq(lxs) = R(1) /\ RMaxSeq(lxs) = <<3, 2>>
    /\ RMinSeq(lys) # RMaxSeq(lys)
    /\ out_box = None

\* C13 as stated: compute_bounding_box with relative = True and no resolution
\* fails with a ValueError for every coordinate list.
C13_AlwaysInvalidArgument ==
    (stage = "boxed" /\ in_relative /\ in_resolution = None) =>
        out_box = ValueError

\* the single-vertex scenario: its corners and one vertex at depth 1
SingleVertexScenario ==
    in_frame = ScenarioFrame /\ in_mesh = <<Vec(0, 0, -1)>>

\* the extents read off the frame rescaled to the depth of the first vertex
ScenarioExtents == frame_extents(rescale_frame(in_frame, RNeg(in_mesh[1].z)))

\* a coordinate list holding the one value 1/2
Half == << <<1, 2>> >>

\* C16 as stated: in the single-vertex scenario the rescaled frame equals the
\* given one, the extents are min_x = -1, max_x = 1, min_y = -1, max_y = 1,
\* the vertex normalizes to (1/2, 1/2) and the box is null; a mesh with one
\* visible vertex never yields a box.
C16_AsStated ==
    /\ (Normalized /\ SingleVertexScenario) =>
           /\ rescale_frame(in_frame, RNeg(in_mesh[1].z)) = in_frame
           /\ ScenarioExtents = [min_x |-> R(-1), max_x |-> R(1),
                                 min_y |-> R(-1), max_y |-> R(1)]
           /\ out_norm = <<Half, Half>>
           /\ stage = "boxed" => out_box = None
    /\ (stage = "boxed" /\ Cardinality(Visible(in_mesh)) = 1) => out_box = None

\* C16 amended: in the single-vertex scenario the rescaled frame equals the
\* given one, the extents by the corner indices are min_x = -1, max_x = 1,
\* min_y = 1 (the y of corner 0) and max_y = -1 (the y of corner 1), the
\* vertex normalizes to (1/2, 1/2) and the box is null; a mesh with one
\* visible vertex never yields a box.
C16_SingleVertexNoBox ==
    /\ (Normalized /\ SingleVertexScenario) =>
           /\ rescale_frame(in_frame, RNeg(in_mesh[1].z)) = in_frame
           /\ ScenarioExtents = [min_x |-> R(-1), max_x |-> R(1),
                                 min_y |-> R(1), max_y |-> R(-1)]
           /\ out_norm = <<Half, Half>>
           /\ stage = "boxed" => out_box = None
    /\ (stage = "boxed" /\ Cardinality(Visible(in_mesh)) = 1) => out_box = None

\* the scenario computed through to its null box
C16_Witness ==
    /\ stage = "boxed" /\ SingleVertexScenario
    /\ ScenarioExtents.min_y = R(1) /\ ScenarioExtents.max_y = R(-1)
    /\ out_norm = <<Half, Half>>
    /\ out_box = None

\* the vertices in front of the camera, in mesh order
VisibleSeq(mesh) == SelectSeq(mesh, LAMBDA v : RLt(R(0), RNeg(v.z)))

\* the normalized x of vertex v, the corners c rescaled to c (z / c.z)
\* for the depth z of v alone
AloneX(v, c) ==
    LET z == RNeg(v.z)
        lo == RMul(c[2].x, RDiv(z, c[2].z))
        hi == RMul(c[3].x, RDiv(z, c[3].z))
    IN  RDiv(RSub(v.x, lo), RSub(hi, lo))

\* likewise the normalized y
AloneY(v, c) ==
    LET z == RNeg(v.z)
        lo == RMul(c[1].y, RDiv(z, c[1].z))
        hi == RMul(c[2].y, RDiv(z, c[2].z))
    IN  RDiv(RSub(v.y, lo), RSub(hi, lo))

\* C18: the (x, y) emitted for a visible vertex is the value obtained from
\* that vertex and the original corners alone, whatever vertices precede it
\* in the list; the result of every ordering of a vertex list is therefore
\* the same values in the order of the vertices.
C18_OrderIndependent ==
    Normalized =>
        LET vs == VisibleSeq(in_mesh)
        IN  /\ Len(lxs) = Len(vs) /\ Len(lys) = Len(vs)
            /\ \A k \in DOMAIN vs :
                   /\ lxs[k] = AloneX(vs[k], in_frame)
                   /\ lys[k] = AloneY(vs[k], in_frame)

\* three visible vertices at depths 2, 1 and 5: the frame is overwritten
\* at a new depth before the second and the third are normalized
C18_Witness ==
    /\ stage = "normalized"
    /\ Len(in_mesh) = 3
    /\ in_mesh[1].z = R(-2) /\ in_mesh[2].z = R(-1) /\ in_mesh[3].z = R(-5)
    /\ Len(lxs) = 3

====
